---- MODULE Spec2Model ----
(***************************************************************************)
(* Model of the Yippee adapter of src/src/app.rs: the struct Yippee, its   *)
(* entry points run() and shutdown(), and the two translation tables       *)
(* handle_winit_event (native event -> embedder events) and                *)
(* handle_servo_messages (engine messages -> actions).                     *)
(*                                                                         *)
(* Numbers.  A pointer coordinate is an f64 of the windowing library; the  *)
(* model writes it as an integer count of half pixels, so 3 is 1.5 px.     *)
(* `as f32` and `as i32` are modelled by what they do on such values       *)
(* (ToF32, ToI32).  Wheel deltas are whole numbers.                        *)
(***************************************************************************)
EXTENDS Integers, Sequences, FiniteSets, TLC

VARIABLES
    servo,           \* Yippee.servo: "Some" or "None"
    browser_id,      \* Yippee.browser_id: {} is None, {w} is Some(w)
    events,          \* Yippee.events: the pending embedder events
    mouse_position,  \* Yippee.mouse_position
    status,          \* Yippee.status
    servo_calls,     \* entry points of the engine called by the current call
    webview_calls,   \* calls on the window made by the current call
    batch,           \* what the current call handed to Servo::handle_events
    deinits,         \* how many times Servo::deinit ran
    engine_quit,     \* the engine has been handed a Quit event
    last_cursor,     \* position of the latest CursorMoved event (the origin before any)
    call             \* the call that has just returned: its inputs, the state before it

vars == <<servo, browser_id, events, mouse_position, status, servo_calls,
          webview_calls, batch, deinits, engine_quit, last_cursor, call>>

----------------------------------------------------------------------------
(* Bounds of the model *)

\* longest batch of messages one Servo::get_events call returns
MaxMsgs == 2

\* most events left pending between two calls (shutdown() calls before a pump,
\* and events pushed once the engine is gone)
MaxQueue == 2

----------------------------------------------------------------------------
(* Values *)

\* const LINE_HEIGHT: f32 = 38.0
LINE_HEIGHT == 38

\* An f32 holds 24 bits of mantissa: every half pixel count below 2^24 is exact.
F32Exact == 16777216

Abs(n) == IF n < 0 THEN -n ELSE n

Sign(n) == IF n < 0 THEN -1 ELSE 1

\* `v as f32` for v = h/2, |h| < 2^25: exact below 2^24, else to the nearest whole
\* pixel, a tie going to the even one
ToF32(h) ==
    IF Abs(h) < F32Exact THEN h
    ELSE IF h % 2 = 0 THEN h
    ELSE LET q == Abs(h) \div 2
         IN  Sign(h) * 2 * (IF q % 2 = 0 THEN q ELSE q + 1)

\* `v as i32` for v = h/2: truncation towards zero, in whole pixels
ToI32(h) == Sign(h) * (Abs(h) \div 2)

\* PhysicalPosition::default()
Origin == <<0, 0>>

\* a pointer position whose x is past the exact range of f32 and whose y, -1.5 px,
\* is no whole number of pixels
FarPosition == <<F32Exact + 1, -3>>

Positions == {Origin, FarPosition}

\* winit::event::MouseButton; "Back" stands for every button the adapter does not map
WinitButtons == {"Left", "Right", "Middle", "Back"}

ElementStates == {"Pressed", "Released"}

\* MouseScrollDelta and TouchPhase of the MouseWheel events tried; the last field of
\* a PixelDelta is the window's scale factor
WheelInputs ==
    { <<"MouseWheel", <<"LineDelta", 0, 1>>, "Started">>,
      <<"MouseWheel", <<"LineDelta", 2, -1>>, "Moved">>,
      <<"MouseWheel", <<"LineDelta", 40, 1>>, "Ended">>,
      <<"MouseWheel", <<"PixelDelta", 4, 6, 2>>, "Cancelled">> }

\* winit::event::Event.  AboutToWait stands for the Event variants, and Focused for
\* the WindowEvent variants, that the adapter does not map.
WinitEvents ==
    { <<"Suspended">>, <<"Resumed">>, <<"UserEvent">>, <<"AboutToWait">>,
      <<"RedrawRequested">>, <<"Resized">>, <<"CloseRequested">>, <<"Focused">>,
      <<"TouchpadMagnify", 1>> }
    \cup { <<"CursorMoved", p>> : p \in Positions }
    \cup { <<"MouseInput", s, b>> : s \in ElementStates, b \in WinitButtons }
    \cup WheelInputs

BrowserIds == {1, 2}

\* servo Cursor; "None" stands for the cursors the adapter sends to the default icon
Cursors == {"Text", "None"}

\* (Option<BrowserId>, EmbedderMsg) as Servo::get_events returns them.
\* ChangePageTitle stands for the messages the adapter does not map.
EmbedderMsgs ==
    { <<{w}, <<"BrowserCreated", w>>>> : w \in BrowserIds }
    \cup { <<{}, <<"SetCursor", c>>>> : c \in Cursors }
    \cup { <<w, <<"AllowNavigationRequest", 7>>>> : w \in {{}, {1}} }
    \cup { <<{}, <<m>>>> : m \in {"ReadyToPresent", "LoadStart", "LoadComplete",
                                  "CloseBrowser", "Shutdown", "ChangePageTitle"} }

\* the batches of at most n messages
RECURSIVE Batches(_)
Batches(n) ==
    IF n = 0 THEN {<<>>}
    ELSE LET shorter == Batches(n - 1)
         IN  shorter \cup { Append(b, m) : b \in {s \in shorter : Len(s) = n - 1},
                                           m \in EmbedderMsgs }

\* Embedder::wake sends the event loop a user event: the engine has messages
WakeUp == <<"UserEvent">>

\* The inputs of one run(): the native event and what get_events then returns.
\* The engine's wake-up is tried with every batch of at most MaxMsgs messages, and
\* every other native event with every batch of fewer.
RunInputs ==
    { <<WakeUp, b>> : b \in Batches(MaxMsgs) }
    \cup { <<e, b>> : e \in WinitEvents, b \in Batches(MaxMsgs - 1) }

----------------------------------------------------------------------------
(* The adapter.  A value y is the struct Yippee together with the record of  *)
(* what the call in progress has done to the engine and to the window.       *)

Push(y, e) == [y EXCEPT !.events = Append(@, e)]

CallServo(y, method) == [y EXCEPT !.servo_calls = Append(@, method)]

CallWebview(y, method) == [y EXCEPT !.webview_calls = Append(@, method)]

\* DevicePoint::new(p.x as f32, p.y as f32), Point2D::new(p.x as f32, p.y as f32)
DevicePoint(p) == <<ToF32(p[1]), ToF32(p[2])>>

\* DeviceIntPoint::new(p.x as i32, p.y as i32)
DeviceIntPoint(p) == <<ToI32(p[1]), ToI32(p[2])>>

\* mouse_button with the fallback arm mapping the button instead of returning
mouse_button_any(button) ==
    CASE button = "Right" -> {"Right"}
      [] button = "Middle" -> {"Middle"}
      [] OTHER -> {"Left"}

\* the match on winit's MouseButton: {} where the adapter logs a warning and returns
mouse_button(button) ==
    CASE button = "Left" -> {"Left"}
      [] button = "Right" -> {"Right"}
      [] button = "Middle" -> {"Middle"}
      [] OTHER -> {}

\* mouse_input with the click pushed ahead of the button event
mouse_input_click_first(y, state, button) ==
    IF mouse_button(button) = {} THEN y
    ELSE LET b == CHOOSE x \in mouse_button(button) : TRUE
             position == DevicePoint(y.mouse_position)
             click == IF state = "Released" THEN Push(y, <<"Click", b, position>>) ELSE y
         IN  Push(click, <<(IF state = "Pressed" THEN "MouseDown" ELSE "MouseUp"),
                           b, position>>)

mouse_input(y, state, button) ==
    IF mouse_button(button) = {} THEN y
    ELSE LET b == CHOOSE x \in mouse_button(button) : TRUE
             position == DevicePoint(y.mouse_position)
             first == Push(y, <<(IF state = "Pressed" THEN "MouseDown" ELSE "MouseUp"),
                                b, position>>)
         IN  IF state = "Released" THEN Push(first, <<"Click", b, position>>)
             ELSE first

\* the match on TouchPhase
touch_event_type(phase) ==
    CASE phase = "Started" -> "Down"
      [] phase = "Moved" -> "Move"
      [] phase = "Ended" -> "Up"
      [] phase = "Cancelled" -> "Cancel"

mouse_wheel(y, delta, phase) ==
    LET line == delta[1] = "LineDelta"
        x == IF line THEN delta[2] ELSE delta[2] \div delta[4]
        y0 == IF line THEN delta[3] * LINE_HEIGHT ELSE delta[3] \div delta[4]
        mode == IF line THEN "DeltaLine" ELSE "DeltaPixel"
        vertical == Abs(y0) >= Abs(x)
        wheel == <<"Wheel", <<x, y0, 0, mode>>, DevicePoint(y.mouse_position)>>
        scroll == <<"Scroll", <<(IF vertical THEN 0 ELSE x), (IF vertical THEN y0 ELSE 0)>>,
                    DeviceIntPoint(y.mouse_position), touch_event_type(phase)>>
    IN  Push(Push(y, wheel), scroll)

\* redraw_requested without the Idle event
redraw_without_idle(y) ==
    IF y.servo = "None" THEN y
    ELSE CallServo(CallServo(y, "recomposite"), "present")

redraw_requested(y) ==
    IF y.servo = "None" THEN y
    ELSE Push(CallServo(CallServo(y, "recomposite"), "present"), <<"Idle">>)

handle_winit_event(y, event) ==
    LET tag == event[1]
    IN  CASE tag = "Suspended" -> y
          [] tag \in {"Resumed", "UserEvent"} -> Push(y, <<"Idle">>)
          [] tag = "RedrawRequested" -> redraw_requested(y)
          [] tag = "Resized" -> Push(CallWebview(y, "resize"), <<"Resize">>)
          [] tag = "CursorMoved" ->
                Push([y EXCEPT !.mouse_position = event[2]],
                     <<"MouseWindowMoveEventClass", DevicePoint(event[2])>>)
          [] tag = "MouseInput" -> mouse_input(y, event[2], event[3])
          [] tag = "TouchpadMagnify" -> Push(y, <<"Zoom", 1 + event[2]>>)
          [] tag = "MouseWheel" -> mouse_wheel(y, event[2], event[3])
          [] tag = "CloseRequested" -> Push(y, <<"Quit">>)
          [] OTHER -> y

\* the match on servo's Cursor
cursor_icon(cursor) == IF cursor = "None" THEN "Default" ELSE cursor

\* one turn of the for_each closure; acc.y is the adapter, acc.need_present the flag
handle_message(acc, wm) ==
    LET w == wm[1]
        m == wm[2]
        tag == m[1]
        y == acc.y
    IN  CASE tag = "BrowserCreated" ->
                [acc EXCEPT !.y = Push([y EXCEPT !.browser_id =
                                            IF y.browser_id = {} THEN {m[2]} ELSE @],
                                       <<"SelectBrowser", m[2]>>)]
          [] tag = "ReadyToPresent" -> [acc EXCEPT !.need_present = TRUE]
          [] tag = "LoadStart" -> [acc EXCEPT !.y.status = "LoadStart"]
          [] tag = "LoadComplete" -> [acc EXCEPT !.y.status = "LoadComplete"]
          [] tag = "SetCursor" ->
                [acc EXCEPT !.y = CallWebview(y, <<"set_cursor_icon", cursor_icon(m[2])>>)]
          [] tag = "AllowNavigationRequest" ->
                IF w # {} THEN [acc EXCEPT !.y = Push(y, <<"AllowNavigationResponse", m[2], TRUE>>)]
                ELSE acc
          [] tag = "CloseBrowser" -> [acc EXCEPT !.y = Push(y, <<"Quit">>)]
          [] tag = "Shutdown" -> [acc EXCEPT !.y.status = "Shutdown"]
          [] OTHER -> acc

RECURSIVE for_each(_, _)
for_each(acc, msgs) ==
    IF msgs = <<>> THEN acc
    ELSE for_each(handle_message(acc, Head(msgs)), Tail(msgs))

\* take_servo with the engine deinitialised through a borrow, the handle left in place
take_servo_keeps_handle(y) ==
    IF y.status = "Shutdown"
    THEN [CallServo(y, "deinit") EXCEPT !.deinits = @ + 1]
    ELSE y

\* self.servo.take().map(Servo::deinit) under `if let Status::Shutdown = self.status`
take_servo(y) ==
    IF y.status = "Shutdown"
    THEN [CallServo(y, "deinit") EXCEPT !.servo = "None", !.deinits = @ + 1]
    ELSE y

\* handle_servo_messages without the early return on an absent handle
handle_servo_messages_unguarded(y, msgs, need_resize) ==
    LET done == for_each([y |-> CallServo(y, "get_events"), need_present |-> FALSE], msgs)
        sent == [CallServo(done.y, "handle_events")
                   EXCEPT !.batch = done.y.events, !.events = <<>>]
        shown == IF need_resize
                 THEN CallServo(CallServo(sent, "repaint_synchronously"), "present")
                 ELSE IF done.need_present THEN CallWebview(sent, "request_redraw")
                 ELSE sent
    IN  take_servo(shown)

\* msgs is what Servo::get_events returns and need_resize what Servo::handle_events
\* returns; neither is read when the engine is gone
handle_servo_messages(y, msgs, need_resize) ==
    IF y.servo = "None" THEN y
    ELSE LET done == for_each([y |-> CallServo(y, "get_events"), need_present |-> FALSE],
                              msgs)
             sent == [CallServo(done.y, "handle_events")
                        EXCEPT !.batch = done.y.events, !.events = <<>>]
             shown == IF need_resize
                      THEN CallServo(CallServo(sent, "repaint_synchronously"), "present")
                      ELSE IF done.need_present THEN CallWebview(sent, "request_redraw")
                      ELSE sent
         IN  take_servo(shown)

\* run with the engine's messages consumed ahead of the native event
run_messages_first(y, event, msgs, need_resize) ==
    handle_winit_event(handle_servo_messages(y, msgs, need_resize), event)

\* Yippee::run but for set_control_flow, which touches the event loop only
run(y, event, msgs, need_resize) ==
    handle_servo_messages(handle_winit_event(y, event), msgs, need_resize)

\* shutdown that also reports the shutdown at once
shutdown_at_once(y) == [Push(y, <<"Quit">>) EXCEPT !.status = "Shutdown"]

\* Yippee::shutdown
shutdown(y) == Push(y, <<"Quit">>)

----------------------------------------------------------------------------
(* The state machine *)

Range(s) == { s[i] : i \in 1..Len(s) }

\* the struct Yippee as it stands
Yippee ==
    [servo |-> servo, browser_id |-> browser_id, events |-> events,
     mouse_position |-> mouse_position, status |-> status]

\* the adapter entering a call: the struct, and nothing done yet
Entering ==
    [servo |-> servo, browser_id |-> browser_id, events |-> events,
     mouse_position |-> mouse_position, status |-> status,
     servo_calls |-> <<>>, webview_calls |-> <<>>, batch |-> <<>>, deinits |-> deinits]

Leave(y) ==
    /\ servo' = y.servo
    /\ browser_id' = y.browser_id
    /\ events' = y.events
    /\ mouse_position' = y.mouse_position
    /\ status' = y.status
    /\ servo_calls' = y.servo_calls
    /\ webview_calls' = y.webview_calls
    /\ batch' = y.batch
    /\ deinits' = y.deinits

\* Yippee::new
Init ==
    /\ servo = "Some"
    /\ browser_id = {}
    /\ events = <<>>
    /\ mouse_position = Origin
    /\ status = "None"
    /\ servo_calls = <<>>
    /\ webview_calls = <<>>
    /\ batch = <<>>
    /\ deinits = 0
    /\ engine_quit = FALSE
    /\ last_cursor = Origin
    /\ call = [op |-> "none"]

\* one call of run(event, _) by the host, the engine answering get_events with msgs
\* and handle_events with need_resize
RunWith(event, msgs, need_resize) ==
    \E y \in {run(Entering, event, msgs, need_resize)} :
        /\ Len(y.events) <= MaxQueue
        /\ Leave(y)
        /\ engine_quit' = (engine_quit \/ <<"Quit">> \in Range(y.batch))
        /\ last_cursor' = IF event[1] = "CursorMoved" THEN event[2] ELSE last_cursor
        /\ call' = [op |-> "run", event |-> event, msgs |-> msgs,
                    need_resize |-> need_resize, prior |-> Yippee,
                    cursor |-> last_cursor,
                    queued |-> handle_winit_event(Entering, event).events,
                    ret |-> y.status]

RunOn(inputs) ==
    /\ call.op = "none"
    /\ IF servo = "Some"
       THEN \E in \in inputs, need_resize \in BOOLEAN : RunWith(in[1], in[2], need_resize)
       ELSE \E event \in { in[1] : in \in inputs } : RunWith(event, <<>>, FALSE)

Run == RunOn(RunInputs)

\* one call of shutdown() by the host
Shutdown ==
    /\ call.op = "none"
    /\ Len(events) < MaxQueue
    /\ Leave(shutdown(Entering))
    /\ UNCHANGED <<engine_quit, last_cursor>>
    /\ call' = [op |-> "shutdown", prior |-> Yippee]

\* the call has returned and the host waits for the next native event
WaitForEvent ==
    /\ call.op # "none"
    /\ call' = [op |-> "none"]
    /\ servo_calls' = <<>>
    /\ webview_calls' = <<>>
    /\ batch' = <<>>
    /\ UNCHANGED <<servo, browser_id, events, mouse_position, status, deinits,
                   engine_quit, last_cursor>>

Next == Run \/ Shutdown \/ WaitForEvent

Spec == Init /\ [][Next]_vars

\* The host and the engine of the liveness property: wake-ups, redraws and close
\* requests, the engine reporting its lifecycle.
LifecycleMsgs == { <<{}, <<m>>>> : m \in {"LoadStart", "LoadComplete", "Shutdown"} }

LiveInputs ==
    { in \in RunInputs :
        /\ in[1] \in {WakeUp, <<"RedrawRequested">>, <<"CloseRequested">>}
        /\ Range(in[2]) \subseteq LifecycleMsgs }

\* the host calls run() with the next native event
HostPumps == RunOn(LiveInputs)

\* the engine, handed a Quit, reports Shutdown among the messages of a later pump
EngineAnswersQuit ==
    /\ engine_quit
    /\ RunOn({ in \in LiveInputs : <<{}, <<"Shutdown">>>> \in Range(in[2]) })

FairNext == HostPumps \/ Shutdown \/ WaitForEvent

\* The host's loop never stops calling run(), every call returns, and an engine that
\* was handed a Quit does report Shutdown.  The two pumps are enabled only between
\* calls, hence strong fairness.
FairSpec ==
    /\ Init
    /\ [][FairNext]_vars
    /\ WF_vars(WaitForEvent)
    /\ SF_vars(HostPumps)
    /\ SF_vars(EngineAnswersQuit)

----------------------------------------------------------------------------
(* What the properties speak of *)

\* a call of run() has just returned
Returned == call.op = "run"

\* ... and the engine handle was present when it began
Pumped == Returned /\ call.prior.servo = "Some"

Quit == <<"Quit">>

ShutdownMsg == <<{}, <<"Shutdown">>>>

\* the events the native event of the call added to the queue
Translated == SubSeq(call.queued, Len(call.prior.events) + 1, Len(call.queued))

\* the events of the batch that the engine's messages added
FromMessages == SubSeq(batch, Len(call.queued) + 1, Len(batch))

Kinds(es) == [i \in 1..Len(es) |-> es[i][1]]

Count(es, e) == Cardinality({ i \in 1..Len(es) : es[i] = e })

IsSupportedButton(b) == b \in {"Left", "Right", "Middle"}

\* a native event with no mapping
IsUnsupported(event) ==
    \/ event[1] \in {"Suspended", "AboutToWait", "Focused"}
    \/ event[1] = "MouseInput" /\ ~IsSupportedButton(event[3])

IsSupportedMsg(wm) == wm[2][1] # "ChangePageTitle"

IsLifecycleMsg(wm) == wm[2][1] \in {"LoadStart", "LoadComplete", "Shutdown"}

IsBrowserCreated(wm) == wm[2][1] = "BrowserCreated"

\* the status after the messages: that of the last lifecycle message, if any
StatusAfter(s, msgs) ==
    LET life == SelectSeq(msgs, IsLifecycleMsg)
    IN  IF life = <<>> THEN s ELSE life[Len(life)][2][1]

\* the browser id after the messages: the first one created, unless one was set
BrowserAfter(b, msgs) ==
    LET made == SelectSeq(msgs, IsBrowserCreated)
    IN  IF b # {} \/ made = <<>> THEN b ELSE {made[1][2][2]}

\* the table of engine messages: the events one message queues; always is whether a
\* navigation request is answered even when it carries no browser id
EventsOfMsg(wm, always) ==
    LET m == wm[2]
    IN  CASE m[1] = "BrowserCreated" -> << <<"SelectBrowser", m[2]>> >>
          [] m[1] = "AllowNavigationRequest" ->
                IF always \/ wm[1] # {} THEN << <<"AllowNavigationResponse", m[2], TRUE>> >>
                ELSE <<>>
          [] m[1] = "CloseBrowser" -> <<Quit>>
          [] OTHER -> <<>>

RECURSIVE EventsOfMsgs(_, _)
EventsOfMsgs(msgs, always) ==
    IF msgs = <<>> THEN <<>>
    ELSE EventsOfMsg(Head(msgs), always) \o EventsOfMsgs(Tail(msgs), always)

\* the table of native events: the kinds of the events one native event queues;
\* redraws is whether RedrawRequested queues Idle
KindsOfEvent(event, redraws) ==
    LET tag == event[1]
    IN  CASE tag \in {"Resumed", "UserEvent"} -> <<"Idle">>
          [] tag = "RedrawRequested" -> IF redraws THEN <<"Idle">> ELSE <<>>
          [] tag = "Resized" -> <<"Resize">>
          [] tag = "CursorMoved" -> <<"MouseWindowMoveEventClass">>
          [] tag = "MouseInput" /\ IsSupportedButton(event[3]) ->
                IF event[2] = "Pressed" THEN <<"MouseDown">> ELSE <<"MouseUp", "Click">>
          [] tag = "TouchpadMagnify" -> <<"Zoom">>
          [] tag = "MouseWheel" -> <<"Wheel", "Scroll">>
          [] tag = "CloseRequested" -> <<"Quit">>
          [] OTHER -> <<>>

----------------------------------------------------------------------------
(* Properties *)

\* C1: at the return of every run(), a status of Shutdown comes with the engine
\* handle being None.
C1_ServoAbsentAfterShutdown ==
    Returned => (status = "Shutdown" => servo = "None")

\* a run() returns Shutdown, having dropped the handle it began with
C1_Witness == Pumped /\ status = "Shutdown" /\ servo = "None"

\* C2: at the return of every run(), the queue of pending embedder events is empty.
C2_QueueDrainedEveryPump == Returned => events = <<>>

\* C3: a run() that begins with the engine handle present translates the native
\* event, then consumes the engine's messages, then hands the engine one batch in
\* one handle_events call: the Quits earlier shutdown() calls left, then the events
\* of the native event, then those of the messages; nothing stays queued, and the
\* status returned is the one the messages left.
C3_PumpOrder ==
    Pumped =>
        LET left == call.prior.events
            first == IF call.event = <<"RedrawRequested">>
                     THEN <<"recomposite", "present">> ELSE <<>>
        IN  /\ \A i \in 1..Len(left) : left[i] = Quit
            /\ SubSeq(call.queued, 1, Len(left)) = left
            /\ batch = call.queued \o EventsOfMsgs(call.msgs, FALSE)
            /\ events = <<>>
            /\ Len(servo_calls) >= Len(first) + 2
            /\ SubSeq(servo_calls, 1, Len(first) + 2)
                   = first \o <<"get_events", "handle_events">>
            /\ Count(servo_calls, "handle_events") = 1
            /\ call.ret = status
            /\ status = StatusAfter(call.prior.status, call.msgs)

\* a pump whose batch has events of all three origins
C3_Witness ==
    /\ Pumped
    /\ call.prior.events # <<>>
    /\ Translated # <<>>
    /\ FromMessages # <<>>

\* C4: shutdown() appends one Quit and changes nothing else; CloseRequested and
\* CloseBrowser queue one Quit each; the status becomes Shutdown and the handle is
\* dropped only in a run() whose messages hold the engine's Shutdown.
C4_ShutdownOnlyRequests ==
    /\ call.op = "shutdown" =>
          /\ events = Append(call.prior.events, Quit)
          /\ [Yippee EXCEPT !.events = call.prior.events] = call.prior
          /\ servo_calls = <<>>
    /\ Returned =>
          LET out == IF Pumped THEN batch ELSE events
          IN  Count(out, Quit)
                = Count(call.prior.events, Quit)
                  + (IF call.event = <<"CloseRequested">> THEN 1 ELSE 0)
                  + Count(call.msgs, <<{}, <<"CloseBrowser">>>>)
    /\ (Returned /\ status = "Shutdown" /\ call.prior.status # "Shutdown")
          => ShutdownMsg \in Range(call.msgs)
    /\ (Returned /\ servo # call.prior.servo)
          => ShutdownMsg \in Range(call.msgs)

\* shutdown() has returned, the handle present, a Quit already pending
C4_Witness ==
    /\ call.op = "shutdown"
    /\ servo = "Some"
    /\ Len(events) = 2

\* C5: once shutdown() is called with the engine handle present, the Quit reaches
\* the engine and in the end a run() has returned Shutdown, the handle deinitialised
\* exactly once.
C5_ShutdownCompletes ==
    /\ (call.op = "shutdown" /\ servo = "Some") ~> engine_quit
    /\ (call.op = "shutdown" /\ servo = "Some")
          ~> (Returned /\ call.ret = "Shutdown" /\ servo = "None" /\ deinits = 1)

\* C6: a native event with no mapping queues nothing and moves no pointer, an engine
\* message with no mapping does nothing, and the rest of the run() is as without them.
C6_UnsupportedIgnored ==
    Returned =>
        LET kept == SelectSeq(call.msgs, IsSupportedMsg)
        IN  /\ IsUnsupported(call.event) =>
                  /\ call.queued = call.prior.events
                  /\ mouse_position = call.prior.mouse_position
                  /\ ~Pumped => Yippee = call.prior
            /\ Pumped =>
                  /\ Count(servo_calls, "handle_events") = 1
                  /\ events = <<>>
                  /\ batch = call.queued \o EventsOfMsgs(kept, FALSE)
                  /\ status = StatusAfter(call.prior.status, kept)
                  /\ browser_id = BrowserAfter(call.prior.browser_id, kept)
                  /\ servo = IF status = "Shutdown" THEN "None" ELSE "Some"
            /\ (Pumped /\ IsUnsupported(call.event) /\ kept = <<>>) =>
                  [Yippee EXCEPT !.events = batch] = call.prior

\* an unmapped button and an unmapped message in one pump, a Quit pending
C6_Witness ==
    /\ Pumped
    /\ call.event = <<"MouseInput", "Pressed", "Back">>
    /\ call.msgs = << <<{}, <<"ChangePageTitle">>>> >>
    /\ batch = <<Quit>>

\* C7 as stated: in every state of the adapter each native event queues the events
\* of its row, and each engine message does the action of its row.
C7_TablesInEveryState ==
    Returned =>
        /\ Kinds(Translated) = KindsOfEvent(call.event, TRUE)
        /\ Pumped =>
              /\ FromMessages = EventsOfMsgs(call.msgs, TRUE)
              /\ status = StatusAfter(call.prior.status, call.msgs)

\* C7 as amended: RedrawRequested queues Idle only while the engine handle is
\* present, and a navigation request is answered only when it carries a browser id.
C7_Tables ==
    Returned =>
        /\ Kinds(Translated) = KindsOfEvent(call.event, call.prior.servo = "Some")
        /\ Pumped =>
              /\ FromMessages = EventsOfMsgs(call.msgs, FALSE)
              /\ status = StatusAfter(call.prior.status, call.msgs)

\* a released button and a navigation request with a browser id in one pump
C7_Witness ==
    /\ Pumped
    /\ call.event = <<"MouseInput", "Released", "Middle">>
    /\ call.msgs = << <<{1}, <<"AllowNavigationRequest", 7>>>> >>

\* C8: a run() whose messages hold Shutdown returns Shutdown, the handle taken and
\* deinitialised, wherever Shutdown stands among the messages.
C8_ShutdownReported ==
    (Pumped /\ ShutdownMsg \in Range(call.msgs)) =>
        /\ call.ret = "Shutdown"
        /\ servo = "None"
        /\ Count(servo_calls, "deinit") = 1

\* C9: a released supported button queues MouseUp then Click, a pressed one MouseDown
\* alone, each with that button and the position of the latest CursorMoved (the
\* origin before any) as the f32 point the events carry; the stored pointer position
\* stays.
C9_ClickAfterMouseUp ==
    (Returned /\ call.event[1] = "MouseInput" /\ IsSupportedButton(call.event[3])) =>
        LET b == call.event[3]
            p == DevicePoint(call.cursor)
        IN  /\ call.event[2] = "Released" =>
                  Translated = << <<"MouseUp", b, p>>, <<"Click", b, p>> >>
            /\ call.event[2] = "Pressed" =>
                  Translated = << <<"MouseDown", b, p>> >>
            /\ mouse_position = call.prior.mouse_position
            /\ last_cursor = call.cursor

\* a button released after the pointer moved away from the origin
C9_Witness ==
    /\ Returned
    /\ call.event = <<"MouseInput", "Released", "Right">>
    /\ call.cursor = FarPosition

\* C10: a run() that begins with the status Shutdown and the handle absent returns
\* Shutdown, leaves the handle absent and calls no entry point of the engine.
C10_ShutdownIsFinal ==
    (Returned /\ call.prior.status = "Shutdown" /\ call.prior.servo = "None") =>
        /\ call.ret = "Shutdown"
        /\ status = "Shutdown"
        /\ servo = "None"
        /\ servo_calls = <<>>
        /\ batch = <<>>
        /\ deinits = 1

\* a redraw asked for after the shutdown, a shutdown() call having come in between
C10_Witness ==
    /\ Returned
    /\ call.prior.servo = "None"
    /\ call.event = <<"RedrawRequested">>
    /\ Quit \in Range(call.prior.events)

====
